---- MODULE Spec2Model ----
(***************************************************************************)
(* Pentagon: a schema-driven access layer over Deno KV.                    *)
(*                                                                         *)
(* The model has one table, "users", with primary key `id`, one secondary  *)
(* index `email` and one plain field `name`.  The state is the key-value   *)
(* store (physical key -> value and versionstamp), the store's versionstamp*)
(* counter, and for each client the position and the local variables of    *)
(* the method it is executing.  A method suspends only at its awaits       *)
(* (src/src/pentagon.ts), so every await of a store call is one step.      *)
(***************************************************************************)
EXTENDS Naturals, Sequences, FiniteSets, TLC

\* Bounds of the model.
MaxStamp == 3      \* versionstamps handed out by the store
MaxItems == 2      \* length of a createMany list

Clients == {"c1", "c2"}

\* The table definition.
TableName == "users"
PrimaryField == "id"
IndexFields == {"email"}
Fields == {"id", "email", "name"}
IdOrder == <<"1", "2">>              \* the store's key order on the id values
FieldValues ==
  [id |-> {"1", "2"}, email |-> {"a", "b"}, name |-> {"x", "y"}]
AllValues == UNION {FieldValues[f] : f \in Fields}

\* An entity has every field; `where` and `data` have any subset of them.
PartialEntities ==
  UNION {{e \in [D -> AllValues] : \A f \in D : e[f] \in FieldValues[f]} :
           D \in SUBSET Fields}
Entities == {e \in PartialEntities : DOMAIN e = Fields}
EmptyObject == [f \in {} |-> ""]

\* Physical keys: (namespace, value).
IndexNamespace(f) == TableName \o "_by_" \o f
PrimaryKeys == {<<TableName, v>> : v \in FieldValues[PrimaryField]}
IndexKeys ==
  UNION {{<<IndexNamespace(f), v>> : v \in FieldValues[f]} : f \in IndexFields}
Keys == PrimaryKeys \cup IndexKeys

VARIABLES
  store,    \* physical key -> [value, versionstamp]; an absent key is not in DOMAIN
  clock,    \* the last versionstamp the store handed out
  proc,     \* client -> position and local variables of the running method
  last      \* what the call that the last step completed gave its caller

vars == <<store, clock, proc, last>>

----------------------------------------------------------------------------
(* The store: Deno.Kv get, list and atomic().check().set().delete().commit() *)

NullStamp == 0

Stamp(s, k) == IF k \in DOMAIN s THEN s[k].versionstamp ELSE NullStamp

\* The entry a point read returns: at most one.
Get(s, k) ==
  IF k \in DOMAIN s
    THEN <<[key |-> k, value |-> s[k].value, versionstamp |-> s[k].versionstamp]>>
    ELSE <<>>

RECURSIVE ListFrom(_, _, _)
ListFrom(s, ns, n) ==
  IF n > Len(IdOrder) THEN <<>>
  ELSE Get(s, <<ns, IdOrder[n]>>) \o ListFrom(s, ns, n + 1)

\* list({prefix: [ns]}): the entries of a namespace in key order.
List(s, ns) == ListFrom(s, ns, 1)

\* One atomic batch.  checks: set of [key, versionstamp]; sets: key -> value;
\* dels: set of keys.  It commits only if every check holds, and then every
\* key it sets carries the batch's one new versionstamp.
ChecksPass(s, checks) == \A ch \in checks : Stamp(s, ch.key) = ch.versionstamp

ApplyBatch(s, sets, dels, vs) ==
  [k \in (DOMAIN s \ dels) \cup DOMAIN sets |->
     IF k \in DOMAIN sets THEN [value |-> sets[k], versionstamp |-> vs]
     ELSE s[k]]

----------------------------------------------------------------------------
(* keys.ts: schemaToKeys, keysToIndexes, whereToKeys *)

\* schemaToKeys(schema, obj): the key fields of the schema that obj carries.
schemaToKeys(obj) ==
  {[field |-> f, value |-> obj[f]] :
     f \in {g \in DOMAIN obj : g = PrimaryField \/ g \in IndexFields}}

\* keysToIndexes(tableName, keys): the physical key of each of them.
keysToIndexes(tableName, keys) ==
  {IF k.field = PrimaryField THEN <<tableName, k.value>>
   ELSE <<tableName \o "_by_" \o k.field, k.value>> : k \in keys}

Matches(value, where) == \A f \in DOMAIN where : value[f] = where[f]

\* whereToKeys(kv, tableName, indexKeys, where): a `where` that is one equality
\* on the primary key or on an indexed field is one point read of that physical
\* key; any other `where` is a scan of the primary namespace, in key order,
\* filtered by `where`.
whereToKeys(s, tableName, indexKeys, where) ==
  IF Cardinality(DOMAIN where) = 1 /\ Cardinality(indexKeys) = 1
    THEN Get(s, CHOOSE k \in indexKeys : TRUE)
    ELSE SelectSeq(List(s, tableName), LAMBDA it : Matches(it.value, where))

----------------------------------------------------------------------------
(* crud.ts: create, update, remove, findMany.  Each commits one atomic batch  *)
(* built from its arguments and answers [status, store, clock, value].        *)

Seq2Set(q) == {q[n] : n \in 1..Len(q)}

\* create(kv, item, keys): every key must be absent; every key is set to item.
create(s, clk, item, keys) ==
  IF ChecksPass(s, {[key |-> k, versionstamp |-> NullStamp] : k \in keys})
    THEN [status |-> "ok",
          store |-> ApplyBatch(s, [k \in keys |-> item], {}, clk + 1),
          clock |-> clk + 1,
          value |-> <<[value |-> item, versionstamp |-> clk + 1]>>]
    ELSE [status |-> "PentagonCreateItemError", store |-> s, clock |-> clk,
          value |-> <<>>]

\* update(kv, items, keys): keys[n] is set to items[n].  The caller hands over
\* no versionstamp, so the batch has nothing to check.
update(s, clk, items, keys) ==
  [status |-> "ok",
   store |-> ApplyBatch(s, [k \in Seq2Set(keys) |->
                          items[CHOOSE n \in 1..Len(keys) : keys[n] = k]],
                    {}, clk + 1),
   clock |-> clk + 1,
   value |-> [n \in 1..Len(items) |->
                [value |-> items[n], versionstamp |-> clk + 1]]]

\* remove(kv, keys): every key handed over is deleted.  No versionstamp is
\* handed over, so the batch has nothing to check; a batch without mutations
\* commits and changes nothing.
remove(s, clk, keys) ==
  [status |-> "ok",
   store |-> ApplyBatch(s, EmptyObject, Seq2Set(keys), clk),
   clock |-> IF keys = <<>> THEN clk ELSE clk + 1,
   value |-> <<>>]

\* findMany(kv, tableName, tableDefinition, queryArgs): the entries `where`
\* resolves to; no write.
findMany(s, tableName, where) ==
  whereToKeys(s, tableName, keysToIndexes(tableName, schemaToKeys(where)), where)

----------------------------------------------------------------------------
(* pentagon.ts: the table's methods *)

Idle ==
  [pc |-> "idle", op |-> "none", data |-> EmptyObject, foundItems |-> <<>>,
   items |-> <<>>, i |-> 0, createdItems |-> <<>>]

\* What the caller of the call that the last step completed got back: the
\* method, its argument (create: data; findMany, findFirst and a zero-rows
\* update: where; update: data), "ok" or the error thrown, and the value
\* returned.  A list is a sequence; a single item or undefined (update,
\* findFirst) is the sequence of that one item or the empty sequence.  `frame`
\* keeps the local variables the call ended with.  A step that completes no
\* call leaves NoCall.
Outcome(op, arg, status, value, frame) ==
  [op |-> op, arg |-> arg, status |-> status, value |-> value, frame |-> frame]

NoCall == Outcome("none", EmptyObject, "ok", <<>>, Idle)

\* `xs?.[0]`
First(xs) == IF xs = <<>> THEN <<>> ELSE <<xs[1]>>

\* The arguments the callers call with.  One caller making one call after the
\* other draws them from the wide sets; two callers whose calls overlap draw
\* them from the Race sets.
CreateInputs == {e \in Entities : e.name = "x"}
ItemInputs == {e \in CreateInputs : e.id = "2" \/ e.email = "a"}
ItemLists == UNION {[1..n -> ItemInputs] : n \in 0..MaxItems}
Wheres ==
  {w \in PartialEntities :
     \/ Cardinality(DOMAIN w) <= 1
     \/ DOMAIN w = {"email", "name"} /\ w.email = "a"}
Datas ==
  {d \in PartialEntities :
     Cardinality(DOMAIN d) <= 1 /\ \A f \in DOMAIN d : d[f] \in {"2", "b", "y"}}

RaceCreateInputs == {e \in CreateInputs : e.email = "a"}
RaceItemLists == UNION {[1..n -> RaceCreateInputs] : n \in 0..MaxItems}
RaceWheres ==
  {w \in Wheres :
     Cardinality(DOMAIN w) = 1 /\ \A f \in DOMAIN w : w[f] \in {"1", "a", "x"}}
RaceDatas == {d \in Datas : DOMAIN d \in {{"email"}, {"name"}}}

\* Faulty variant of createImpl: only the primary key goes into the batch.
createImplPrimaryOnly(s, clk, data) ==
  create(s, clk, data, {<<TableName, data[PrimaryField]>>})

\* Faulty variant of createImpl: the primary key in one batch, the index keys
\* in a second one.
createImplTwoBatches(s, clk, data) ==
  LET primary == {<<TableName, data[PrimaryField]>>}
      r == create(s, clk, data, primary)
  IN
    IF r.status # "ok" THEN r
    ELSE create(r.store, r.clock, data,
                keysToIndexes(TableName, schemaToKeys(data)) \ primary)

createImpl(s, clk, data) ==
  create(s, clk, data, keysToIndexes(TableName, schemaToKeys(data)))

\* The lookup that delete, deleteMany and updateMany start with.
resolveWhere(s, where) ==
  whereToKeys(s, TableName, keysToIndexes(TableName, schemaToKeys(where)), where)

\* { ...existingItem.value, ...updateArgs.data }
Merge(value, data) ==
  [f \in DOMAIN value \cup DOMAIN data |->
     IF f \in DOMAIN data THEN data[f] ELSE value[f]]

\* updatedItems: `data` carries no versionstamp, so each keeps the one read.
updatedItems(foundItems, data) ==
  [n \in 1..Len(foundItems) |->
     [key |-> foundItems[n].key,
      value |-> Merge(foundItems[n].value, data),
      versionstamp |-> foundItems[n].versionstamp]]

MapKey(xs) == [n \in 1..Len(xs) |-> xs[n].key]
MapValue(xs) == [n \in 1..Len(xs) |-> xs[n].value]

\* updateMany, after its lookup found something: the merge and the batch.
updateManyImpl(s, clk, foundItems, data) ==
  update(s, clk, MapValue(updatedItems(foundItems, data)), MapKey(foundItems))

\* Faulty variant of updateImpl: only the first record found is updated.
updateImplFirstOnly(s, clk, foundItems, data) ==
  updateManyImpl(s, clk, First(foundItems), data)

updateImpl(s, clk, foundItems, data) ==
  LET r == updateManyImpl(s, clk, foundItems, data) IN
    [r EXCEPT !.value = First(r.value)]

\* delete and deleteMany, after their lookup.
deleteImpl(s, clk, foundItems) == remove(s, clk, MapKey(foundItems))

deleteManyImpl(s, clk, foundItems) == remove(s, clk, MapKey(foundItems))

findManyImpl(s, where) == findMany(s, TableName, where)

\* Faulty variant of findFirstImpl: a scan limited to one entry, filtered after.
findFirstLimited(s, where) ==
  IF Cardinality(DOMAIN where) = 1
       /\ Cardinality(keysToIndexes(TableName, schemaToKeys(where))) = 1
    THEN First(findMany(s, TableName, where))
    ELSE SelectSeq(First(List(s, TableName)),
                   LAMBDA it : Matches(it.value, where))

findFirstImpl(s, where) == First(findMany(s, TableName, where))

\* Faulty variant of createManyIter: a failed item is skipped and the loop goes on.
createManyIterSkip(p, r) ==
  [proc |-> [p EXCEPT !.createdItems = p.createdItems \o r.value,
                      !.i = p.i + 1],
   last |-> NoCall]

\* One iteration of createMany's loop, given what createImpl answered: push and
\* go on, or let the error out.
createManyIter(p, r) ==
  IF r.status = "ok"
    THEN [proc |-> [p EXCEPT !.createdItems = p.createdItems \o r.value,
                             !.i = p.i + 1],
          last |-> NoCall]
    ELSE [proc |-> Idle,
          last |-> Outcome("createMany", EmptyObject, r.status, <<>>, p)]

----------------------------------------------------------------------------
Init ==
  /\ store = EmptyObject
  /\ clock = 0
  /\ proc = [c \in Clients |-> Idle]
  /\ last = NoCall

\* create: one await, one batch.
Create(c, data) ==
  /\ proc[c].pc = "idle"
  /\ clock < MaxStamp
  /\ LET r == createImpl(store, clock, data) IN
       /\ store' = r.store
       /\ clock' = r.clock
       /\ last' = Outcome("create", data, r.status, r.value, Idle)
  /\ UNCHANGED proc

\* createMany: entering the loop.
CreateManyCall(c, items) ==
  /\ proc[c].pc = "idle"
  /\ proc' = [proc EXCEPT ![c] =
                [Idle EXCEPT !.pc = "createMany", !.op = "createMany",
                             !.items = items, !.i = 0, !.createdItems = <<>>]]
  /\ last' = NoCall
  /\ UNCHANGED <<store, clock>>

\* createMany: one await of createImpl.
CreateManyIter(c) ==
  /\ proc[c].pc = "createMany"
  /\ proc[c].i < Len(proc[c].items)
  /\ clock < MaxStamp
  /\ LET r == createImpl(store, clock, proc[c].items[proc[c].i + 1])
         n == createManyIter(proc[c], r)
     IN
       /\ store' = r.store
       /\ clock' = r.clock
       /\ proc' = [proc EXCEPT ![c] = n.proc]
       /\ last' = n.last

\* createMany: the loop is over.
CreateManyReturn(c) ==
  /\ proc[c].pc = "createMany"
  /\ proc[c].i >= Len(proc[c].items)
  /\ last' = Outcome("createMany", EmptyObject, "ok", proc[c].createdItems,
                     proc[c])
  /\ proc' = [proc EXCEPT ![c] = Idle]
  /\ UNCHANGED <<store, clock>>

\* Faulty variant of UpdateResolve: no throw on zero rows.
UpdateResolveNoThrow(c, op, where, datas) ==
  /\ proc[c].pc = "idle"
  /\ \E data \in datas :
       proc' = [proc EXCEPT ![c] =
                  [Idle EXCEPT !.pc = "update", !.op = op, !.data = data,
                               !.foundItems = resolveWhere(store, where)]]
  /\ last' = NoCall
  /\ UNCHANGED <<store, clock>>

\* update and updateMany: the await of whereToKeys, and the zero-rows throw.
UpdateResolve(c, op, where, datas) ==
  /\ proc[c].pc = "idle"
  /\ LET foundItems == resolveWhere(store, where) IN
       IF Len(foundItems) = 0
         THEN /\ last' = Outcome(op, where, "PentagonUpdateError", <<>>, Idle)
              /\ UNCHANGED proc
         ELSE /\ \E data \in datas :
                   proc' = [proc EXCEPT ![c] =
                              [Idle EXCEPT !.pc = "update", !.op = op,
                                           !.data = data,
                                           !.foundItems = foundItems]]
              /\ last' = NoCall
  /\ UNCHANGED <<store, clock>>

\* update and updateMany: the await of update.
UpdateCommit(c) ==
  /\ proc[c].pc = "update"
  /\ clock < MaxStamp
  /\ LET r == IF proc[c].op = "update"
                THEN updateImpl(store, clock, proc[c].foundItems, proc[c].data)
                ELSE updateManyImpl(store, clock, proc[c].foundItems,
                                    proc[c].data)
     IN
       /\ store' = r.store
       /\ clock' = r.clock
       /\ last' = Outcome(proc[c].op, proc[c].data, r.status, r.value,
                          proc[c])
  /\ proc' = [proc EXCEPT ![c] = Idle]

\* delete and deleteMany: the await of whereToKeys.
DeleteResolve(c, op, where) ==
  /\ proc[c].pc = "idle"
  /\ proc' = [proc EXCEPT ![c] =
                [Idle EXCEPT !.pc = "delete", !.op = op,
                             !.foundItems = resolveWhere(store, where)]]
  /\ last' = NoCall
  /\ UNCHANGED <<store, clock>>

\* delete and deleteMany: the await of remove.
DeleteCommit(c) ==
  /\ proc[c].pc = "delete"
  /\ clock < MaxStamp
  /\ LET r == IF proc[c].op = "delete"
                THEN deleteImpl(store, clock, proc[c].foundItems)
                ELSE deleteManyImpl(store, clock, proc[c].foundItems)
     IN
       /\ store' = r.store
       /\ clock' = r.clock
       /\ last' = Outcome(proc[c].op, EmptyObject, r.status, r.value,
                          proc[c])
  /\ proc' = [proc EXCEPT ![c] = Idle]

FindMany(c, where) ==
  /\ proc[c].pc = "idle"
  /\ last' = Outcome("findMany", where, "ok", findManyImpl(store, where),
                     Idle)
  /\ UNCHANGED <<store, clock, proc>>

FindFirst(c, where) ==
  /\ proc[c].pc = "idle"
  /\ last' = Outcome("findFirst", where, "ok", findFirstImpl(store, where),
                     Idle)
  /\ UNCHANGED <<store, clock, proc>>

\* The steps of a client's mutating calls and of its reads, the arguments drawn
\* from the given sets.
Mutation(c, creates, lists, wheres, datas) ==
  \/ \E data \in creates : Create(c, data)
  \/ \E items \in lists : CreateManyCall(c, items)
  \/ CreateManyIter(c)
  \/ CreateManyReturn(c)
  \/ \E op \in {"update", "updateMany"}, where \in wheres :
       UpdateResolve(c, op, where, datas)
  \/ UpdateCommit(c)
  \/ \E op \in {"delete", "deleteMany"}, where \in wheres :
       DeleteResolve(c, op, where)
  \/ DeleteCommit(c)

Read(c, wheres) ==
  \/ \E where \in wheres : FindMany(c, where)
  \/ \E where \in wheres : FindFirst(c, where)

\* One caller: each call runs to its end before the next one starts.
Next ==
  \/ Mutation("c1", CreateInputs, ItemLists, Wheres, Datas)
  \/ Read("c1", Wheres)

Spec == Init /\ [][Next]_vars

\* Two callers: the steps of their mutating calls interleave.
NextRace ==
  \E c \in Clients :
    Mutation(c, RaceCreateInputs, RaceItemLists, RaceWheres, RaceDatas)

SpecRace == Init /\ [][NextRace]_vars

----------------------------------------------------------------------------
(* Properties *)

PrimaryKeyOf(e) == <<TableName, e[PrimaryField]>>
IndexKeyOf(f, e) == <<IndexNamespace(f), e[f]>>
KeysOf(e) == {PrimaryKeyOf(e)} \cup {IndexKeyOf(f, e) : f \in IndexFields}
Holds(s, k, e) == k \in DOMAIN s /\ s[k].value = e

\* C1: index consistency.  In every reachable state and for every indexed
\* field f, the primary key of an entity e holds e if and only if the index key
\* (users_by_f, e[f]) holds the same e.
C1_IndexConsistency ==
  /\ \A k \in PrimaryKeys \cap DOMAIN store : \A f \in IndexFields :
       Holds(store, IndexKeyOf(f, store[k].value), store[k].value)
  /\ \A k \in IndexKeys \cap DOMAIN store :
       Holds(store, PrimaryKeyOf(store[k].value), store[k].value)

\* C2: uniqueness on create.  A create succeeds exactly when neither the primary
\* key nor any index key of its entity is held at the time of its batch, and
\* otherwise fails with the create error and writes nothing: of two creates
\* that share a primary-key value or an indexed value, in whatever order their
\* batches reach the store, the first succeeds and the second fails.
C2_CreateUnique ==
  [][last'.op = "create" =>
       LET e == last'.arg
           free == \A k \in KeysOf(e) : k \notin DOMAIN store
       IN
         /\ (last'.status = "ok") <=> free
         /\ free => /\ \A k \in KeysOf(e) : Holds(store', k, e)
                    /\ \A k \in DOMAIN store : Holds(store', k, store[k].value)
         /\ ~free => /\ last'.status = "PentagonCreateItemError"
                     /\ store' = store]_vars

\* Scenario A: a create failed on the indexed value alone, its primary key free.
C2_Witness ==
  /\ last.op = "create"
  /\ last.status = "PentagonCreateItemError"
  /\ PrimaryKeyOf(last.arg) \notin DOMAIN store
  /\ \E f \in IndexFields :
       /\ IndexKeyOf(f, last.arg) \in DOMAIN store
       /\ store[IndexKeyOf(f, last.arg)].value[PrimaryField]
            # last.arg[PrimaryField]


\* A client's update (delete) batch is committed by this step.
UpdateCommits(c) == proc[c].pc = "update" /\ proc'[c].pc = "idle"
DeleteCommits(c) == proc[c].pc = "delete" /\ proc'[c].pc = "idle"

\* Some record the call resolved no longer carries the versionstamp it read.
Stale(s, foundItems) ==
  \E n \in 1..Len(foundItems) :
    Stamp(s, foundItems[n].key) # foundItems[n].versionstamp

\* C3: atomic update under contention.  An update that commits after another
\* write to a record it read fails with a conflict error and writes nothing, so
\* of two updates that read the same record at the same versionstamp only one
\* commits.
C3_StaleUpdateConflicts ==
  [][\A c \in Clients :
       UpdateCommits(c) /\ Stale(store, proc[c].foundItems) =>
         last'.status # "ok" /\ store' = store]_vars

SingleWhere(f, v) == [g \in {f} |-> v]

\* C4: index move on update.  After a successful update that changes the value
\* of an indexed field f of a record from a to b, findMany {f: a} returns no
\* record and findMany {f: b} returns the updated record.
C4_IndexMoves ==
  [][\A c \in Clients :
       UpdateCommits(c) /\ last'.status = "ok" =>
         \A n \in 1..Len(proc[c].foundItems) : \A f \in IndexFields :
           LET old == proc[c].foundItems[n].value
               new == Merge(old, proc[c].data)
           IN
             old[f] # new[f] =>
               /\ findManyImpl(store', SingleWhere(f, old[f])) = <<>>
               /\ \E m \in 1..Len(findManyImpl(store', SingleWhere(f, new[f]))) :
                    findManyImpl(store', SingleWhere(f, new[f]))[m].value = new]_vars

\* C5: a delete whose target was modified or deleted between its lookup and its
\* commit fails with a conflict error and removes no key.
C5_StaleDeleteConflicts ==
  [][\A c \in Clients :
       DeleteCommits(c) /\ Stale(store, proc[c].foundItems) =>
         last'.status # "ok" /\ store' = store]_vars

IsUpdate(o) == o.op \in {"update", "updateMany"}
IsDelete(o) == o.op \in {"delete", "deleteMany"}

C7_ZeroRowsDeleteThrows ==
  IsDelete(last) /\ last.frame.foundItems = <<>> => last.status # "ok"

\* C8: findFirst agrees with findMany.  What findFirst returns is the first
\* element of what findMany returns for the same `where` on the same store, and
\* is absent exactly when that is empty.
C8_FindFirstIsHead ==
  last.op = "findFirst" =>
    LET all == findManyImpl(store, last.arg) IN
      /\ (last.value = <<>>) <=> (all = <<>>)
      /\ all # <<>> => last.value = <<all[1]>>

\* findFirst answered a `where` that the first record of the table does not
\* match and a later one does.
C8_Witness ==
  /\ last.op = "findFirst"
  /\ last.value # <<>>
  /\ Len(List(store, TableName)) >= 2
  /\ ~Matches(List(store, TableName)[1].value, last.arg)

\* C9: createMany is sequential and non-transactional.  While the loop runs,
\* the items before the current one were created in list order, one batch each.
\* The step for item k either commits exactly the keys of item k and moves to
\* item k+1, or, if a key of item k is held, fails with the create error, writes
\* nothing, leaves what items 1..k-1 committed in place, and ends the call
\* without attempting the items after k.
C9_CreateManySequential ==
  /\ [](\A c \in Clients :
          proc[c].pc = "createMany" =>
            /\ Len(proc[c].createdItems) = proc[c].i
            /\ proc[c].i <= Len(proc[c].items)
            /\ \A n \in 1..proc[c].i :
                 /\ proc[c].createdItems[n].value = proc[c].items[n]
                 /\ n > 1 => proc[c].createdItems[n].versionstamp
                               > proc[c].createdItems[n - 1].versionstamp)
  /\ [][\A c \in Clients :
          proc[c].pc = "createMany" /\ proc[c].i < Len(proc[c].items)
            /\ proc'[c] # proc[c] =>
            LET e == proc[c].items[proc[c].i + 1]
                free == \A k \in KeysOf(e) : k \notin DOMAIN store
            IN
              /\ free =>
                   /\ \A k \in KeysOf(e) : Holds(store', k, e)
                   /\ DOMAIN store' = DOMAIN store \cup KeysOf(e)
                   /\ \A k \in DOMAIN store : store'[k] = store[k]
                   /\ proc'[c].pc = "createMany"
                   /\ proc'[c].i = proc[c].i + 1
              /\ ~free =>
                   /\ store' = store
                   /\ proc'[c].pc = "idle"
                   /\ last'.op = "createMany"
                   /\ last'.status = "PentagonCreateItemError"
                   /\ last'.frame.i = proc[c].i]_vars

\* A createMany failed at its second or a later item, and the items before it
\* are in the store.
C9_Witness ==
  /\ last.op = "createMany"
  /\ last.status = "PentagonCreateItemError"
  /\ last.frame.i >= 1
  /\ \A n \in 1..last.frame.i :
       \A k \in KeysOf(last.frame.items[n]) : Holds(store, k, last.frame.items[n])

\* C10: a batch operation that fails part-way hands its caller the failure and
\* the list of the items already applied.
C10_PartialResultReported ==
  last.op = "createMany" /\ last.status # "ok" =>
    last.value = last.frame.createdItems

\* ScanAndFilter forced: the primary namespace in key order, filtered by `where`.
ScanAndFilter(s, where) ==
  SelectSeq(List(s, TableName), LAMBDA it : Matches(it.value, where))

\* The entities and versionstamps of a list of entries, their keys left out.
Records(xs) ==
  {[value |-> xs[n].value, versionstamp |-> xs[n].versionstamp] :
     n \in 1..Len(xs)}

\* C11: lookup path equivalence.  In every reachable state, for every `where`
\* that is one equality on the primary key or on the indexed field, findMany
\* (the point read of that key) returns the same set of records as the scan of
\* the primary namespace filtered by the same `where`.
C11_LookupPathsAgree ==
  \A f \in {PrimaryField} \cup IndexFields : \A v \in FieldValues[f] :
    Records(findManyImpl(store, SingleWhere(f, v)))
      = Records(ScanAndFilter(store, SingleWhere(f, v)))

IsSingleWrite(o) == o.op = "create" \/ IsUpdate(o) \/ IsDelete(o)

C13_VersionAdvances ==
  [][/\ last'.op = "create" /\ last'.status = "ok" =>
          Stamp(store', PrimaryKeyOf(last'.arg)) > clock
     /\ \A c \in Clients :
          UpdateCommits(c) /\ last'.status = "ok" =>
            \A n \in 1..Len(proc[c].foundItems) :
              LET k == PrimaryKeyOf(proc[c].foundItems[n].value) IN
                k \in DOMAIN store =>
                  Stamp(store', k) > Stamp(store, k)]_vars

\* The entities stored under the primary keys that `where` matches.
MatchingEntities(s, where) ==
  {s[k].value : k \in {j \in PrimaryKeys \cap DOMAIN s :
                         Matches(s[j].value, where)}}

\* C14: findMany returns exactly the matching records.  In every reachable
\* state and for every `where`, of one field, of several fields, or of the
\* indexed field together with a plain one, the entities findMany returns are
\* the stored entities whose fields equal every constraint of `where`, and no
\* others.
C14_FindManyExact ==
  \A w \in Wheres :
    {it.value : it \in Seq2Set(findManyImpl(store, w))}
      = MatchingEntities(store, w)

\* C15: update merge is a shallow field overwrite.  After a successful update,
\* the entity stored under the primary key of each record the update found has
\* the value of `data` for every field `data` carries and the value the record
\* had before for every other field.
C15_ShallowMerge ==
  [][\A c \in Clients :
       UpdateCommits(c) /\ last'.status = "ok" =>
         \A n \in 1..Len(proc[c].foundItems) :
           LET k == PrimaryKeyOf(proc[c].foundItems[n].value) IN
             k \in DOMAIN store =>
               /\ k \in DOMAIN store'
               /\ \A f \in Fields :
                    store'[k].value[f] =
                      IF f \in DOMAIN proc[c].data THEN proc[c].data[f]
                      ELSE store[k].value[f]]_vars

\* The primary keys whose stored entity `where` does not match.
NonMatching(s, where) ==
  {k \in PrimaryKeys \cap DOMAIN s : ~Matches(s[k].value, where)}

\* The step leaves the record under primary key k as it is: the primary key and
\* every index key of its entity keep their value and versionstamp.
RecordUntouched(k) ==
  /\ Get(store', k) = Get(store, k)
  /\ \A f \in IndexFields :
       Get(store', IndexKeyOf(f, store[k].value))
         = Get(store, IndexKeyOf(f, store[k].value))

\* C16: frame of update and delete.  The batch of an update, updateMany, delete
\* or deleteMany leaves untouched every record that does not match the `where`
\* of the call, whichever `where` resolved to the items the call found;
\* findMany and findFirst leave the whole store unchanged.
C16_Frame ==
  [][/\ \A c \in Clients :
          UpdateCommits(c) \/ DeleteCommits(c) =>
            \A w \in Wheres :
              resolveWhere(store, w) = proc[c].foundItems =>
                \A k \in NonMatching(store, w) : RecordUntouched(k)
     /\ last'.op \in {"findMany", "findFirst"} =>
          store' = store /\ clock' = clock]_vars

\* C17: index uniqueness survives updates.  In every reachable state no two
\* records stored under distinct primary keys have the same value of an
\* indexed field.
C17_IndexUnique ==
  \A j, k \in PrimaryKeys \cap DOMAIN store :
    j # k => \A f \in IndexFields : store[j].value[f] # store[k].value[f]

\* C18: key/entity agreement.  In every reachable state the entity stored under
\* the primary key (users, v) has v as the value of its primary-key field.
C18_KeyEntityAgree ==
  \A k \in PrimaryKeys \cap DOMAIN store : store[k].value[PrimaryField] = k[2]

\* C19: singular and plural mutations have the same effect on the store.  The
\* batch of an update leaves the store and its counter exactly as the batch of
\* an updateMany on the same store with the same found items and `data` leaves
\* them, every item found being rewritten and not only the first; update
\* returns the first of the records updateMany returns.  The batch of a delete
\* leaves the store exactly as that of a deleteMany does, every item found
\* being removed.
C19_SingularAsPlural ==
  [][\A c \in Clients :
       /\ UpdateCommits(c) =>
            LET many == updateManyImpl(store, clock, proc[c].foundItems,
                                       proc[c].data)
            IN
              /\ store' = many.store /\ clock' = many.clock
              /\ last'.status = many.status
              /\ last'.value = IF proc[c].op = "update" THEN First(many.value)
                               ELSE many.value
              /\ \A n \in 1..Len(proc[c].foundItems) :
                   Stamp(store', proc[c].foundItems[n].key) = clock'
       /\ DeleteCommits(c) =>
            LET many == deleteManyImpl(store, clock, proc[c].foundItems) IN
              /\ store' = many.store /\ clock' = many.clock
              /\ last'.status = many.status /\ last'.value = many.value
              /\ \A n \in 1..Len(proc[c].foundItems) :
                   proc[c].foundItems[n].key \notin DOMAIN store']_vars

\* An update (singular) found two records, rewrote both and returned the first.
C19_Witness ==
  /\ last.op = "update"
  /\ last.status = "ok"
  /\ Len(last.frame.foundItems) >= 2
  /\ Len(last.value) = 1
  /\ \A n \in 1..Len(last.frame.foundItems) :
       /\ Stamp(store, last.frame.foundItems[n].key) = clock
       /\ store[last.frame.foundItems[n].key].value
            = Merge(last.frame.foundItems[n].value, last.arg)

====
